---- MODULE Spec2Model ----
(***************************************************************************)
(* State-machine model of the per-card interaction controller of          *)
(* src/components/VideoCard.tsx: the favorite status of each card, the     *)
(* asynchronous calls it makes to db.client (isFavorited, saveFavorite,    *)
(* deleteFavorite, deletePlayRecord), the favoritesUpdated subscription    *)
(* the contextual menu and its entries, and the display configuration.     *)
(*                                                                         *)
(* db.client and the useLongPress hook are modules of their own: the       *)
(* store, the channel, the three Service* actions and the steps of a press *)
(* follow their contracts in the specification.                            *)
(***************************************************************************)
EXTENDS Integers, Sequences, FiniteSets, Bags, TLC

\* ---------------------------------------------------------------- bounds
\* asynchronous calls in flight at once, over all cards
MaxInFlight == 2
\* published favoritesUpdated events not yet delivered
MaxQueue == 1
\* the clock of a press advances in steps of TickMs up to MaxHoldMs
TickMs == 100
MaxHoldMs == 700

\* longPressDelay of the useLongPress call
longPressDelay == 500

\* ---------------------------------------------------------------- inputs
\* JavaScript truthiness of a string prop
Truthy(s) == s # ""

\* c1 is the card under study; c2 is a sibling card of another list of the page
Cards == {"c1", "c2"}
Variants == {"playrecord", "favorite", "search", "douban"}
\* tags outside the type of `from` that an untyped caller can pass
UnknownTags == {"history", "constructor"}
\* names every object literal inherits from Object.prototype: configs[name] is
\* then the inherited member, which is truthy
ObjectPrototypeKeys == {"constructor", "toString", "valueOf", "hasOwnProperty"}
\* an optional number: <<>> is undefined, <<n>> is the number n
DoubanIds == { <<>>, <<0>>, <<7>> }
\* an optional episode count
Episodes == { <<>>, <<1>>, <<12>> }
\* an optional array of source names: <<>> is undefined, <<a>> is the array a;
\* two arrays with different `ref` are different objects, whatever they hold
SourceNameArrays ==
  { <<>> } \cup { <<[ref |-> r, names |-> <<"s1", "s2">>]>> : r \in {"r1", "r2"} }
\* (source, id) pairs a card is created with; an empty string is a missing prop
Identities ==
  { <<"", "1">>, <<"A", "">>, <<"A", "1">> }
\* the props of VideoCardProps the controller reads
CardProps ==
  { p \in [from : Variants \cup UnknownTags, ident : Identities, isAggregate : BOOLEAN,
           rate : {"", "8.5"}, douban_id : DoubanIds,
           episodes : {<<>>}, source_names : {<<>>}] :
      /\ (p.isAggregate => p.from = "search")
      /\ (p.rate # "" => p.from = "douban")
      /\ (p.douban_id # <<>> => p.from \in {"search", "douban"}) }
\* the props of a card whose mutable fields are driven from outside
BridgeProps ==
  { p \in [from : {"search", "douban"}, ident : {<<"A", "1">>}, isAggregate : BOOLEAN,
           rate : {""}, douban_id : DoubanIds,
           episodes : Episodes, source_names : SourceNameArrays] :
      p.isAggregate => p.from = "search" }
\* the props each card of a page of two is created with
PropsOf(c) ==
  IF c = "c1" THEN { p \in CardProps : p.from \in Variants /\ p.douban_id = <<>> }
  ELSE { p \in CardProps : /\ p.from \in {"favorite", "search"}
                           /\ Truthy(p.ident[1]) /\ Truthy(p.ident[2])
                           /\ ~p.isAggregate
                           /\ p.douban_id = <<>> }

NULL == "null"
BoolStr(b) == IF b THEN "true" ELSE "false"

generateStorageKey(s, i) == s \o ":" \o i
Keys == { generateStorageKey(p[1], p[2]) : p \in { q \in Identities : Truthy(q[1]) /\ Truthy(q[2]) } }

VARIABLES
  mounted,            \* card -> is an instance of the card rendered
  from,               \* card -> prop `from`
  actualSource,       \* card -> prop `source`
  actualId,           \* card -> prop `id`
  isAggregate,        \* card -> prop `isAggregate`
  rate,               \* card -> prop `rate`
  dynamicDoubanId,    \* card -> useState(douban_id)
  episodes,           \* card -> prop `episodes`
  source_names,       \* card -> prop `source_names`
  douban_id,          \* card -> prop `douban_id`
  dynamicEpisodes,    \* card -> useState(episodes)
  dynamicSourceNames, \* card -> useState(source_names)
  bridged,            \* history: card -> the fields whose value was set through the handle
  recordToggles,      \* history: whether toggles record what they started from
  gesture,            \* card -> the press under way: [state, held (ms)]
  favorited,          \* card -> useState(false)
  searchFavorited,    \* card -> useState<boolean | null>(null): "null", "true", "false"
  showMobileActions,  \* card -> useState(false)
  settled,            \* history: card -> favorited has been written, or the mount-time lookup has ended
  pending,            \* bag of asynchronous calls in flight
  favorites,          \* the store: composite keys that are favorited
  channel,            \* favoritesUpdated payloads published and not yet delivered
  subscriptions,      \* live favoritesUpdated handlers: [card, storageKey]
  lastEvent           \* history: what the last step did

fieldVars == <<episodes, source_names, douban_id, dynamicEpisodes, dynamicSourceNames, bridged,
               recordToggles>>
cardVars == <<mounted, from, actualSource, actualId, isAggregate, rate, dynamicDoubanId, fieldVars>>
stateVars == <<favorited, searchFavorited, showMobileActions, settled>>
vars == <<mounted, from, actualSource, actualId, isAggregate, rate, dynamicDoubanId,
          fieldVars, gesture, favorited, searchFavorited, showMobileActions, settled, pending, favorites,
          channel, subscriptions, lastEvent>>

\* ---------------------------------------------------------------- helpers
Event(t, c, live, val, threw) ==
  [type |-> t, card |-> c, live |-> live, val |-> val, threw |-> threw,
   known |-> FALSE, prevented |-> FALSE, pl |-> [key |-> "", favorites |-> {}],
   member |-> FALSE, alone |-> FALSE, first |-> <<>>]

\* an asynchronous db.client call awaited by card c; source and id are the
\* arguments captured when it was issued, cur the value its caller read;
\* known (history) tells whether the card's status was Known at that time,
\* member (history) whether the store held the key at that time, alone
\* (history) whether no other toggle for the key has been in flight with it, and
\* first (history) is <<>> or what the toggle that the card completed in the
\* step before had read
Call(c, kind, s, i, cur, known) ==
  [card |-> c, kind |-> kind, source |-> s, id |-> i, cur |-> cur,
   known |-> known, alive |-> TRUE, phase |-> "sent", res |-> FALSE,
   member |-> FALSE, alone |-> FALSE, first |-> <<>>]

\* no press under way
Idle == [state |-> "Idle", held |-> 0]

\* a step the history does not tell apart
Quiet == Event("other", "c1", FALSE, FALSE, FALSE)

InFlight == BagCardinality(pending)
Ops == BagToSet(pending)
Issue(o) == pending (+) SetToBag({o})
Retire(o) == pending (-) SetToBag({o})
Replace(o, o2) == (pending (-) SetToBag({o})) (+) SetToBag({o2})

HasIdentity(c) == Truthy(actualSource[c]) /\ Truthy(actualId[c])

\* the call was issued by the instance now mounted, for the identity it has now
Live(o) ==
  /\ o.alive
  /\ o.source = actualSource[o.card]
  /\ o.id = actualId[o.card]

\* ---------------------------------------------------------------- config
\* the flags read off a value that is no row of configs are undefined
NoFlags ==
  [showSourceName |-> FALSE, showProgress |-> FALSE, showPlayButton |-> FALSE,
   showHeart |-> FALSE, showCheckCircle |-> FALSE, showDoubanLink |-> FALSE,
   showRating |-> FALSE, showYear |-> FALSE]

\* the rows of the configs object
configs_playrecord ==
  [showSourceName |-> TRUE, showProgress |-> TRUE, showPlayButton |-> TRUE,
   showHeart |-> TRUE, showCheckCircle |-> TRUE, showDoubanLink |-> FALSE,
   showRating |-> FALSE, showYear |-> FALSE]

configs_favorite ==
  [showSourceName |-> TRUE, showProgress |-> FALSE, showPlayButton |-> TRUE,
   showHeart |-> TRUE, showCheckCircle |-> FALSE, showDoubanLink |-> FALSE,
   showRating |-> FALSE, showYear |-> FALSE]

configs_search ==
  [showSourceName |-> TRUE, showProgress |-> FALSE, showPlayButton |-> TRUE,
   showHeart |-> TRUE, showCheckCircle |-> FALSE, showDoubanLink |-> TRUE,
   showRating |-> FALSE, showYear |-> TRUE]

configs_douban(r) ==
  [showSourceName |-> FALSE, showProgress |-> FALSE, showPlayButton |-> TRUE,
   showHeart |-> FALSE, showCheckCircle |-> FALSE, showDoubanLink |-> TRUE,
   showRating |-> Truthy(r), showYear |-> FALSE]

\* configs with a douban row that shows the heart
configs_DoubanHeart(f, r) ==
  IF f = "playrecord" THEN configs_playrecord
  ELSE IF f = "favorite" THEN configs_favorite
  ELSE IF f = "search" THEN configs_search
  ELSE IF f = "douban" THEN [configs_douban(r) EXCEPT !.showHeart = TRUE]
  ELSE IF f \in ObjectPrototypeKeys THEN NoFlags
  ELSE configs_search

\* configs[from] || configs.search: a property lookup, own rows first, then
\* the members inherited from Object.prototype, else the search row
configs(f, r) ==
  IF f = "playrecord" THEN configs_playrecord
  ELSE IF f = "favorite" THEN configs_favorite
  ELSE IF f = "search" THEN configs_search
  ELSE IF f = "douban" THEN configs_douban(r)
  ELSE IF f \in ObjectPrototypeKeys THEN NoFlags
  ELSE configs_search

config(c) == configs(from[c], rate[c])

\* ---------------------------------------------------------------- status
\* The tri-state of the specification, read off the state of the card.
HasLookup(c) ==
  \E o \in Ops : o.card = c /\ o.alive /\ o.kind \in {"fetch", "check"}

Known(b) == IF b THEN "KnownTrue" ELSE "KnownFalse"
IsKnown(s) == s \in {"KnownTrue", "KnownFalse"}

Status(c) ==
  IF ~mounted[c] THEN "Unknown"
  ELSE IF from[c] = "search" THEN
    IF searchFavorited[c] # NULL THEN Known(searchFavorited[c] = "true")
    ELSE IF HasLookup(c) THEN "Checking" ELSE "Unknown"
  ELSE
    IF settled[c] THEN Known(favorited[c])
    ELSE IF HasLookup(c) THEN "Checking" ELSE "Unknown"

\* ---------------------------------------------------------------- Init
Init ==
  /\ mounted = [c \in Cards |-> FALSE]
  /\ from = [c \in Cards |-> "search"]
  /\ actualSource = [c \in Cards |-> ""]
  /\ actualId = [c \in Cards |-> ""]
  /\ isAggregate = [c \in Cards |-> FALSE]
  /\ rate = [c \in Cards |-> ""]
  /\ dynamicDoubanId = [c \in Cards |-> <<>>]
  /\ episodes = [c \in Cards |-> <<>>]
  /\ source_names = [c \in Cards |-> <<>>]
  /\ douban_id = [c \in Cards |-> <<>>]
  /\ dynamicEpisodes = [c \in Cards |-> <<>>]
  /\ dynamicSourceNames = [c \in Cards |-> <<>>]
  /\ bridged = [c \in Cards |-> {}]
  /\ recordToggles = FALSE
  /\ gesture = [c \in Cards |-> Idle]
  /\ favorited = [c \in Cards |-> FALSE]
  /\ searchFavorited = [c \in Cards |-> NULL]
  /\ showMobileActions = [c \in Cards |-> FALSE]
  /\ settled = [c \in Cards |-> FALSE]
  /\ pending = EmptyBag
  /\ favorites \in SUBSET Keys
  /\ channel = <<>>
  /\ subscriptions = {}
  /\ lastEvent = Quiet

\* ---------------------------------------------------------------- setters
setFavorited(c, v) ==
  /\ favorited' = [favorited EXCEPT ![c] = v]
  /\ settled' = [settled EXCEPT ![c] = TRUE]
  /\ UNCHANGED <<searchFavorited, showMobileActions>>

setSearchFavorited(c, v) ==
  /\ searchFavorited' = [searchFavorited EXCEPT ![c] = v]
  /\ UNCHANGED <<favorited, showMobileActions, settled>>

\* ---------------------------------------------------------------- mount, unmount, props
\* EffectRuns without the early return for search cards
EffectRuns_SearchToo(f, s, i) ==
  ~(f = "douban" \/ ~Truthy(s) \/ ~Truthy(i))

\* the guard of the favorite-status effect (it returns early otherwise)
EffectRuns(f, s, i) ==
  ~(f = "douban" \/ f = "search" \/ ~Truthy(s) \/ ~Truthy(i))

Subscription(c, s, i) == [card |-> c, storageKey |-> generateStorageKey(s, i)]

\* Cleanup of an effect that returns no unsubscribe function
Cleanup_Leaked(c) == subscriptions

\* the effect's cleanup: the unsubscribe function it returned, if it ran
Cleanup(c) ==
  IF EffectRuns(from[c], actualSource[c], actualId[c])
  THEN subscriptions \ {Subscription(c, actualSource[c], actualId[c])}
  ELSE subscriptions

\* the calls of an unmounted instance stay in flight; their setState is a no-op
Orphaned(c) ==
  LET orphan(o) == IF o.card = c THEN [o EXCEPT !.alive = FALSE] ELSE o
      image == { orphan(o) : o \in Ops }
  IN [ o2 \in image |->
         CopiesIn(o2, pending)
         + (IF o2.card = c THEN CopiesIn([o2 EXCEPT !.alive = TRUE], pending) ELSE 0) ]

\* the props and the useState initial values of the mutable fields
SeedFields(c, eps, names, id) ==
  /\ episodes' = [episodes EXCEPT ![c] = eps]
  /\ source_names' = [source_names EXCEPT ![c] = names]
  /\ douban_id' = [douban_id EXCEPT ![c] = id]
  /\ dynamicEpisodes' = [dynamicEpisodes EXCEPT ![c] = eps]
  /\ dynamicSourceNames' = [dynamicSourceNames EXCEPT ![c] = names]
  /\ dynamicDoubanId' = [dynamicDoubanId EXCEPT ![c] = id]
  /\ bridged' = [bridged EXCEPT ![c] = {}]
  /\ UNCHANGED recordToggles

Mount(c, p) ==
  LET s == p.ident[1]
      i == p.ident[2]
      runs == EffectRuns(p.from, s, i)
  IN /\ ~mounted[c]
     /\ runs => InFlight < MaxInFlight
     /\ mounted' = [mounted EXCEPT ![c] = TRUE]
     /\ from' = [from EXCEPT ![c] = p.from]
     /\ actualSource' = [actualSource EXCEPT ![c] = s]
     /\ actualId' = [actualId EXCEPT ![c] = i]
     /\ isAggregate' = [isAggregate EXCEPT ![c] = p.isAggregate]
     /\ rate' = [rate EXCEPT ![c] = p.rate]
     /\ SeedFields(c, p.episodes, p.source_names, p.douban_id)
     /\ pending' = IF runs THEN Issue(Call(c, "fetch", s, i, FALSE, FALSE)) ELSE pending
     /\ subscriptions' = IF runs THEN subscriptions \cup {Subscription(c, s, i)}
                         ELSE subscriptions
     /\ UNCHANGED <<gesture, stateVars, favorites, channel>>
     /\ lastEvent' = Quiet

Unmount(c) ==
  /\ mounted[c]
  /\ subscriptions' = Cleanup(c)
  /\ pending' = Orphaned(c)
  /\ mounted' = [mounted EXCEPT ![c] = FALSE]
  /\ from' = [from EXCEPT ![c] = "search"]
  /\ actualSource' = [actualSource EXCEPT ![c] = ""]
  /\ actualId' = [actualId EXCEPT ![c] = ""]
  /\ isAggregate' = [isAggregate EXCEPT ![c] = FALSE]
  /\ rate' = [rate EXCEPT ![c] = ""]
  /\ SeedFields(c, <<>>, <<>>, <<>>)
  /\ gesture' = [gesture EXCEPT ![c] = Idle]
  /\ favorited' = [favorited EXCEPT ![c] = FALSE]
  /\ searchFavorited' = [searchFavorited EXCEPT ![c] = NULL]
  /\ showMobileActions' = [showMobileActions EXCEPT ![c] = FALSE]
  /\ settled' = [settled EXCEPT ![c] = FALSE]
  /\ UNCHANGED <<favorites, channel>>
  /\ lastEvent' = Quiet

\* a re-render of a mounted card with another source or id: the effect's
\* dependencies changed, so its cleanup runs and the effect runs again
SetIdentity(c, ident) ==
  LET s == ident[1]
      i == ident[2]
      runs == EffectRuns(from[c], s, i)
  IN /\ mounted[c]
     /\ <<actualSource[c], actualId[c]>> # ident
     /\ runs => InFlight < MaxInFlight
     /\ actualSource' = [actualSource EXCEPT ![c] = s]
     /\ actualId' = [actualId EXCEPT ![c] = i]
     /\ pending' = IF runs THEN Issue(Call(c, "fetch", s, i, FALSE, FALSE)) ELSE pending
     /\ subscriptions' = IF runs THEN Cleanup(c) \cup {Subscription(c, s, i)}
                         ELSE Cleanup(c)
     /\ UNCHANGED <<mounted, from, isAggregate, rate, dynamicDoubanId, fieldVars, gesture,
                    stateVars, favorites, channel>>
     /\ lastEvent' = Quiet

\* ---------------------------------------------------------------- mutable fields
\* SyncEffect of an effect that has no dependency array: it runs after every render
SyncEffect_NoDeps(prop, next, dyn) == next

\* useEffect(() => setDynamicX(x), [x]) after a re-render that passes `next`
\* for the prop that was `prop`: the effect runs when the dependency changed
SyncEffect(prop, next, dyn) == IF next # prop THEN next ELSE dyn

\* the fields of c a re-render with these props passes another value for
ChangedProps(c, eps, names, id) ==
  {f \in {"episodes" } : eps # episodes[c]}
    \cup {f \in {"source_names"} : names # source_names[c]}
    \cup {f \in {"douban_id"} : id # douban_id[c]}

\* the parent renders a mounted card again with other episodes, source_names
\* or douban_id props
SetProps(c, eps, names, id) ==
  /\ mounted[c]
  /\ ChangedProps(c, eps, names, id) # {}
  /\ episodes' = [episodes EXCEPT ![c] = eps]
  /\ source_names' = [source_names EXCEPT ![c] = names]
  /\ douban_id' = [douban_id EXCEPT ![c] = id]
  /\ dynamicEpisodes' =
       [dynamicEpisodes EXCEPT ![c] = SyncEffect(episodes[c], eps, dynamicEpisodes[c])]
  /\ dynamicSourceNames' =
       [dynamicSourceNames EXCEPT ![c] = SyncEffect(source_names[c], names, dynamicSourceNames[c])]
  /\ dynamicDoubanId' =
       [dynamicDoubanId EXCEPT ![c] = SyncEffect(douban_id[c], id, dynamicDoubanId[c])]
  /\ bridged' = [bridged EXCEPT ![c] =
                   { f \in @ : /\ f = "episodes" => dynamicEpisodes'[c] = dynamicEpisodes[c]
                               /\ f = "source_names" => dynamicSourceNames'[c] = dynamicSourceNames[c]
                               /\ f = "douban_id" => dynamicDoubanId'[c] = dynamicDoubanId[c] }]
  /\ UNCHANGED <<mounted, from, actualSource, actualId, isAggregate, rate, gesture, stateVars,
                 pending, favorites, channel, subscriptions, recordToggles>>
  /\ lastEvent' = Event("setProps", c, TRUE, FALSE, FALSE)

\* the handle of useImperativeHandle; the ref of an unmounted card is null
setEpisodes(c, eps) ==
  /\ mounted[c]
  /\ dynamicEpisodes' = [dynamicEpisodes EXCEPT ![c] = eps]
  /\ bridged' = [bridged EXCEPT ![c] = @ \cup {"episodes"}]
  /\ UNCHANGED <<mounted, from, actualSource, actualId, isAggregate, rate, dynamicDoubanId,
                 episodes, source_names, douban_id, dynamicSourceNames, gesture, stateVars,
                 pending, favorites, channel, subscriptions, recordToggles>>
  /\ lastEvent' = Quiet

setSourceNames(c, names) ==
  /\ mounted[c]
  /\ dynamicSourceNames' = [dynamicSourceNames EXCEPT ![c] = names]
  /\ bridged' = [bridged EXCEPT ![c] = @ \cup {"source_names"}]
  /\ UNCHANGED <<mounted, from, actualSource, actualId, isAggregate, rate, dynamicDoubanId,
                 episodes, source_names, douban_id, dynamicEpisodes, gesture, stateVars,
                 pending, favorites, channel, subscriptions, recordToggles>>
  /\ lastEvent' = Quiet

setDoubanId(c, id) ==
  /\ mounted[c]
  /\ dynamicDoubanId' = [dynamicDoubanId EXCEPT ![c] = id]
  /\ bridged' = [bridged EXCEPT ![c] = @ \cup {"douban_id"}]
  /\ UNCHANGED <<mounted, from, actualSource, actualId, isAggregate, rate,
                 episodes, source_names, douban_id, dynamicEpisodes, dynamicSourceNames,
                 gesture, stateVars, pending, favorites, channel, subscriptions,
                 recordToggles>>
  /\ lastEvent' = Quiet

\* ---------------------------------------------------------------- fetchFavoriteStatus
\* fetchFavoriteStatusResume with the result of the lookup never stored
fetchFavoriteStatusResume_ResultDropped(o) ==
  /\ o \in Ops
  /\ o.kind = "fetch"
  /\ o.phase \in {"ok", "err"}
  /\ pending' = Retire(o)
  /\ settled' = [settled EXCEPT ![o.card] = o.alive \/ settled[o.card]]
  /\ UNCHANGED <<favorited, searchFavorited, showMobileActions>>
  /\ UNCHANGED <<cardVars, gesture, favorites, channel, subscriptions>>
  /\ lastEvent' = Event(IF o.phase = "ok" THEN "fetchOk" ELSE "fetchErr", o.card,
                        Live(o), o.res, o.phase = "err")

\* the continuation of `await isFavorited` in the effect
fetchFavoriteStatusResume(o) ==
  /\ o \in Ops
  /\ o.kind = "fetch"
  /\ o.phase \in {"ok", "err"}
  /\ pending' = Retire(o)
  /\ IF o.alive /\ o.phase = "ok" THEN setFavorited(o.card, o.res)
     ELSE /\ settled' = [settled EXCEPT ![o.card] = o.alive \/ settled[o.card]]
          /\ UNCHANGED <<favorited, searchFavorited, showMobileActions>>
  /\ UNCHANGED <<cardVars, gesture, favorites, channel, subscriptions>>
  /\ lastEvent' = Event(IF o.phase = "ok" THEN "fetchOk" ELSE "fetchErr", o.card,
                        Live(o), o.res, o.phase = "err")

\* ---------------------------------------------------------------- handleToggleFavorite
\* history: the store holds the key of c
Member(c) == generateStorageKey(actualSource[c], actualId[c]) \in favorites

\* history: no toggle for the key of c is in flight
NoToggleInFlight(c) ==
  \A o \in Ops : ~(o.kind = "toggle" /\ o.source = actualSource[c] /\ o.id = actualId[c])

\* history: the calls in flight, the toggles for the key of c marked as no
\* longer alone
Overlapped(c) ==
  LET same(o) == o.kind = "toggle" /\ o.source = actualSource[c] /\ o.id = actualId[c]
      mark(o) == IF same(o) THEN [o EXCEPT !.alone = FALSE] ELSE o
      image == { mark(o) : o \in Ops }
  IN [ o2 \in image |->
         CopiesIn(o2, pending)
         + (IF same(o2) THEN CopiesIn([o2 EXCEPT !.alone = TRUE], pending) ELSE 0) ]

\* history: what the toggle read that this instance of c invoked with no other
\* toggle in flight and completed with success in the step before, if there
\* is one
JustToggled(c) ==
  IF lastEvent.type = "toggleOk" /\ lastEvent.card = c /\ lastEvent.live /\ lastEvent.alone
  THEN <<[cur |-> lastEvent.val, known |-> lastEvent.known, member |-> lastEvent.member]>>
  ELSE <<>>

handleToggleFavorite(c) ==
  IF from[c] = "douban" \/ ~Truthy(actualSource[c]) \/ ~Truthy(actualId[c])
  THEN /\ UNCHANGED pending
       /\ lastEvent' = Quiet
  ELSE LET currentFavorited ==
             IF from[c] = "search" THEN searchFavorited[c] = "true" ELSE favorited[c]
              toggle == Call(c, "toggle", actualSource[c], actualId[c], currentFavorited,
                             IsKnown(Status(c)))
       IN /\ InFlight < MaxInFlight
          /\ pending' = IF recordToggles
                         THEN Overlapped(c) (+)
                                SetToBag({[toggle EXCEPT !.member = Member(c),
                                                         !.alone = NoToggleInFlight(c),
                                                         !.first = JustToggled(c)]})
                         ELSE Issue(toggle)
          /\ lastEvent' = Quiet

\* the continuation of `await deleteFavorite` / `await saveFavorite`
handleToggleFavoriteResume(o) ==
  /\ o \in Ops
  /\ o.kind = "toggle"
  /\ o.phase \in {"ok", "err"}
  /\ pending' = Retire(o)
  /\ IF o.alive /\ o.phase = "ok"
     THEN IF from[o.card] = "search"
          THEN setSearchFavorited(o.card, BoolStr(~o.cur))
          ELSE setFavorited(o.card, ~o.cur)
     ELSE UNCHANGED stateVars
  /\ UNCHANGED <<cardVars, gesture, favorites, channel, subscriptions>>
  /\ lastEvent' = [Event(IF o.phase = "ok" THEN "toggleOk" ELSE "toggleErr", o.card,
                         Live(o), o.cur, o.phase = "err")
                     EXCEPT !.known = o.known, !.member = o.member, !.alone = o.alone,
                            !.first = o.first]

\* ---------------------------------------------------------------- handleDeleteRecord
handleDeleteRecord(c) ==
  IF from[c] # "playrecord" \/ ~Truthy(actualSource[c]) \/ ~Truthy(actualId[c])
  THEN /\ UNCHANGED pending
       /\ lastEvent' = Quiet
  ELSE /\ InFlight < MaxInFlight
       /\ pending' = Issue(Call(c, "delete", actualSource[c], actualId[c], FALSE, FALSE))
       /\ lastEvent' = Quiet

\* handleDeleteRecordResume with onDelete called in the catch block too
handleDeleteRecordResume_NotifyOnError(o) ==
  /\ o \in Ops
  /\ o.kind = "delete"
  /\ o.phase \in {"ok", "err"}
  /\ pending' = Retire(o)
  /\ UNCHANGED <<cardVars, gesture, stateVars, favorites, channel, subscriptions>>
  /\ lastEvent' = Event("onDelete", o.card, Live(o), FALSE, o.phase = "err")

\* the continuation of `await deletePlayRecord`: onDelete?.() or the rethrow
handleDeleteRecordResume(o) ==
  /\ o \in Ops
  /\ o.kind = "delete"
  /\ o.phase \in {"ok", "err"}
  /\ pending' = Retire(o)
  /\ UNCHANGED <<cardVars, gesture, stateVars, favorites, channel, subscriptions>>
  /\ lastEvent' = Event(IF o.phase = "ok" THEN "onDelete" ELSE "deleteErr", o.card,
                        Live(o), FALSE, o.phase = "err")

\* ---------------------------------------------------------------- checkSearchFavoriteStatus
CheckWanted(c) ==
  /\ from[c] = "search"
  /\ ~isAggregate[c]
  /\ Truthy(actualSource[c])
  /\ Truthy(actualId[c])
  /\ searchFavorited[c] = NULL

checkSearchFavoriteStatus(c) ==
  IF CheckWanted(c)
  THEN /\ InFlight < MaxInFlight
       /\ pending' = Issue(Call(c, "check", actualSource[c], actualId[c], FALSE, FALSE))
  ELSE UNCHANGED pending

\* checkSearchFavoriteStatusResume with a catch block that resets the status
checkSearchFavoriteStatusResume_ResetOnError(o) ==
  /\ o \in Ops
  /\ o.kind = "check"
  /\ o.phase \in {"ok", "err"}
  /\ pending' = Retire(o)
  /\ IF o.alive
     THEN setSearchFavorited(o.card, IF o.phase = "ok" THEN BoolStr(o.res) ELSE NULL)
     ELSE UNCHANGED stateVars
  /\ UNCHANGED <<cardVars, gesture, favorites, channel, subscriptions>>
  /\ lastEvent' = Event(IF o.phase = "ok" THEN "checkOk" ELSE "checkErr", o.card,
                        Live(o), o.res, FALSE)

\* the continuation of `await isFavorited` in checkSearchFavoriteStatus
checkSearchFavoriteStatusResume(o) ==
  /\ o \in Ops
  /\ o.kind = "check"
  /\ o.phase \in {"ok", "err"}
  /\ pending' = Retire(o)
  /\ IF o.alive
     THEN setSearchFavorited(o.card, IF o.phase = "ok" THEN BoolStr(o.res) ELSE "false")
     ELSE UNCHANGED stateVars
  /\ UNCHANGED <<cardVars, gesture, favorites, channel, subscriptions>>
  /\ lastEvent' = Event(IF o.phase = "ok" THEN "checkOk" ELSE "checkErr", o.card,
                        Live(o), o.res, FALSE)

\* ---------------------------------------------------------------- navigation
\* handleClick pushes a url when one of its three branches applies (origin is 'vod')
Navigates(c) ==
  \/ from[c] = "douban"
  \/ isAggregate[c] /\ ~Truthy(actualSource[c]) /\ ~Truthy(actualId[c])
  \/ Truthy(actualSource[c]) /\ Truthy(actualId[c])

handleClick(c) ==
  lastEvent' = Event("handleClick", c, TRUE, Navigates(c), FALSE)

\* ---------------------------------------------------------------- menu
\* handleLongPress with its guard inverted
handleLongPress_GuardInverted(c) ==
  IF showMobileActions[c]
  THEN /\ showMobileActions' = [showMobileActions EXCEPT ![c] = TRUE]
       /\ IF CheckWanted(c) THEN checkSearchFavoriteStatus(c) ELSE UNCHANGED pending
  ELSE UNCHANGED <<showMobileActions, pending>>

handleLongPress(c) ==
  IF ~showMobileActions[c]
  THEN /\ showMobileActions' = [showMobileActions EXCEPT ![c] = TRUE]
       /\ IF CheckWanted(c) THEN checkSearchFavoriteStatus(c) ELSE UNCHANGED pending
  ELSE UNCHANGED <<showMobileActions, pending>>

\* onContextMenu toggling the menu
onContextMenu_Toggle(c) ==
  /\ lastEvent' = [Event("contextMenu", c, TRUE, FALSE, FALSE) EXCEPT !.prevented = TRUE]
  /\ showMobileActions' = [showMobileActions EXCEPT ![c] = ~showMobileActions[c]]
  /\ IF CheckWanted(c) THEN checkSearchFavoriteStatus(c) ELSE UNCHANGED pending

onContextMenu(c) ==
  /\ lastEvent' = [Event("contextMenu", c, TRUE, FALSE, FALSE) EXCEPT !.prevented = TRUE]
  /\ showMobileActions' = [showMobileActions EXCEPT ![c] = TRUE]
  /\ IF CheckWanted(c) THEN checkSearchFavoriteStatus(c) ELSE UNCHANGED pending

\* truthiness of an optional number
TruthyNum(n) == n # <<>> /\ n[1] # 0

\* the two play entries of mobileActions
PlayActions(c) ==
  IF config(c).showPlayButton
  THEN << [id |-> "play", label |-> "play", disabled |-> FALSE],
          [id |-> "play-new-tab", label |-> "play-new-tab", disabled |-> FALSE] >>
  ELSE <<>>

\* the favorite entry of mobileActions: no entry, the toggle, or the placeholder
FavoriteAction(c) ==
  IF config(c).showHeart /\ from[c] # "douban" /\ Truthy(actualSource[c]) /\ Truthy(actualId[c])
  THEN LET currentFavorited ==
             IF from[c] = "search" THEN searchFavorited[c] = "true" ELSE favorited[c]
           toggle == [id |-> "favorite",
                      label |-> IF currentFavorited THEN "remove" ELSE "add",
                      disabled |-> FALSE]
       IN IF from[c] = "search"
          THEN IF searchFavorited[c] # NULL
               THEN <<toggle>>
               ELSE <<[id |-> "favorite-loading", label |-> "loading", disabled |-> TRUE]>>
          ELSE <<toggle>>
  ELSE <<>>

\* the delete entry of mobileActions
DeleteAction(c) ==
  IF config(c).showCheckCircle /\ from[c] = "playrecord"
     /\ Truthy(actualSource[c]) /\ Truthy(actualId[c])
  THEN <<[id |-> "delete", label |-> "delete", disabled |-> FALSE]>>
  ELSE <<>>

\* DoubanAction that tests the id against undefined only
DoubanAction_ZeroShown(c) ==
  IF config(c).showDoubanLink /\ dynamicDoubanId[c] # <<>>
  THEN <<[id |-> "douban", label |-> "douban", disabled |-> FALSE]>>
  ELSE <<>>

\* the douban entry of mobileActions
DoubanAction(c) ==
  IF config(c).showDoubanLink /\ TruthyNum(dynamicDoubanId[c]) /\ dynamicDoubanId[c] # <<0>>
  THEN <<[id |-> "douban", label |-> "douban", disabled |-> FALSE]>>
  ELSE <<>>

\* mobileActions with the delete entry pushed before the favorite entry
mobileActions_DeleteFirst(c) ==
  PlayActions(c) \o DeleteAction(c) \o FavoriteAction(c) \o DoubanAction(c)

\* actions.push in the order of the code
mobileActions(c) ==
  PlayActions(c) \o FavoriteAction(c) \o DeleteAction(c) \o DoubanAction(c)

\* the Heart icon is rendered
HeartShown(c) ==
  /\ config(c).showHeart \/ config(c).showCheckCircle
  /\ config(c).showHeart /\ from[c] # "search"

\* ---------------------------------------------------------------- user events
\* a click on the card root
Click(c) ==
  /\ mounted[c]
  /\ handleClick(c)
  /\ UNCHANGED <<cardVars, gesture, stateVars, pending, favorites, channel, subscriptions>>

\* the play entry of the open menu
MenuPlayClick(c) ==
  /\ mounted[c]
  /\ showMobileActions[c]
  /\ PlayActions(c) # <<>>
  /\ handleClick(c)
  /\ UNCHANGED <<cardVars, gesture, stateVars, pending, favorites, channel, subscriptions>>

\* a press the resolver reports as a long press
LongPress(c) ==
  /\ mounted[c]
  /\ handleLongPress(c)
  /\ UNCHANGED <<cardVars, gesture, favorited, searchFavorited, settled, favorites, channel, subscriptions>>
  /\ lastEvent' = Quiet

ContextMenu(c) ==
  /\ mounted[c]
  /\ onContextMenu(c)
  /\ UNCHANGED <<cardVars, gesture, favorited, searchFavorited, settled, favorites, channel, subscriptions>>

\* onClose of the action sheet
CloseMenu(c) ==
  /\ mounted[c]
  /\ showMobileActions[c]
  /\ showMobileActions' = [showMobileActions EXCEPT ![c] = FALSE]
  /\ UNCHANGED <<cardVars, gesture, favorited, searchFavorited, settled, pending, favorites,
                 channel, subscriptions>>
  /\ lastEvent' = Quiet

\* the Heart icon of the card
HeartClick(c) ==
  /\ mounted[c]
  /\ HeartShown(c)
  /\ handleToggleFavorite(c)
  /\ UNCHANGED <<cardVars, gesture, stateVars, favorites, channel, subscriptions>>

\* the enabled favorite entry of the open menu
MenuFavoriteClick(c) ==
  /\ mounted[c]
  /\ showMobileActions[c]
  /\ \E k \in DOMAIN FavoriteAction(c) :
       FavoriteAction(c)[k].id = "favorite" /\ ~FavoriteAction(c)[k].disabled
  /\ handleToggleFavorite(c)
  /\ UNCHANGED <<cardVars, gesture, stateVars, favorites, channel, subscriptions>>

\* the Trash2 icon of the card
TrashClick(c) ==
  /\ mounted[c]
  /\ config(c).showHeart \/ config(c).showCheckCircle
  /\ config(c).showCheckCircle
  /\ handleDeleteRecord(c)
  /\ UNCHANGED <<cardVars, gesture, stateVars, favorites, channel, subscriptions>>

\* the delete entry of the open menu
MenuDeleteClick(c) ==
  /\ mounted[c]
  /\ showMobileActions[c]
  /\ DeleteAction(c) # <<>>
  /\ handleDeleteRecord(c)
  /\ UNCHANGED <<cardVars, gesture, stateVars, favorites, channel, subscriptions>>

\* ---------------------------------------------------------------- useLongPress (from the specification)
\* Idle -> Pressing -> Tapped | LongPressed | Cancelled; the three outcomes
\* end the press, LongPressed at the release that follows it.
PointerDown(c) ==
  /\ mounted[c]
  /\ gesture[c].state = "Idle"
  /\ gesture' = [gesture EXCEPT ![c] = [state |-> "Pressing", held |-> 0]]
  /\ UNCHANGED <<cardVars, stateVars, pending, favorites, channel, subscriptions>>
  /\ lastEvent' = Quiet

\* the press is held TickMs longer; onLongPress runs when the threshold is reached
Hold(c) ==
  LET held == gesture[c].held + TickMs
  IN /\ mounted[c]
     /\ gesture[c].state # "Idle"
     /\ held <= MaxHoldMs
     /\ IF gesture[c].state = "Pressing" /\ held >= longPressDelay
        THEN /\ gesture' = [gesture EXCEPT ![c] = [state |-> "LongPressed", held |-> held]]
             /\ handleLongPress(c)
        ELSE /\ gesture' = [gesture EXCEPT ![c].held = held]
             /\ UNCHANGED <<showMobileActions, pending>>
     /\ UNCHANGED <<cardVars, favorited, searchFavorited, settled, favorites, channel,
                    subscriptions>>
     /\ lastEvent' = Quiet

\* the release: a tap invokes onClick, the release of a long press nothing
PointerUp(c) ==
  /\ mounted[c]
  /\ gesture[c].state # "Idle"
  /\ gesture' = [gesture EXCEPT ![c] = Idle]
  /\ IF gesture[c].state = "Pressing" THEN handleClick(c) ELSE lastEvent' = Quiet
  /\ UNCHANGED <<cardVars, stateVars, pending, favorites, channel, subscriptions>>

\* movement beyond the tolerance, or the pointer leaving the card: Cancelled
PointerMove(c) ==
  /\ mounted[c]
  /\ gesture[c].state = "Pressing"
  /\ gesture' = [gesture EXCEPT ![c] = Idle]
  /\ UNCHANGED <<cardVars, stateVars, pending, favorites, channel, subscriptions>>
  /\ lastEvent' = Event("cancel", c, TRUE, FALSE, FALSE)

\* ---------------------------------------------------------------- db.client (from the specification)
\* exists(source, id): answers from the store, or fails
ServiceExists(o, ok) ==
  /\ o \in Ops
  /\ o.kind \in {"fetch", "check"}
  /\ o.phase = "sent"
  /\ pending' = Replace(o, [o EXCEPT !.phase = IF ok THEN "ok" ELSE "err",
                                     !.res = ok /\ generateStorageKey(o.source, o.id) \in favorites])
  /\ UNCHANGED <<cardVars, gesture, stateVars, favorites, channel, subscriptions>>
  /\ lastEvent' = Quiet

\* add / remove: changes the store unless it fails, and publishes the new
\* membership of the key on favoritesUpdated whatever the outcome
ServiceMutate(o, ok) ==
  LET key == generateStorageKey(o.source, o.id)
      published == IF o.cur THEN favorites \ {key} ELSE favorites \cup {key}
  IN /\ o \in Ops
     /\ o.kind = "toggle"
     /\ o.phase = "sent"
     /\ Len(channel) < MaxQueue
     /\ pending' = Replace(o, [o EXCEPT !.phase = IF ok THEN "ok" ELSE "err"])
     /\ favorites' = IF ok THEN published ELSE favorites
     /\ channel' = Append(channel, [key |-> key, favorites |-> published])
     /\ UNCHANGED <<cardVars, gesture, stateVars, subscriptions>>
     /\ lastEvent' = Quiet

\* removePlayRecord: succeeds or fails
ServiceRemovePlayRecord(o, ok) ==
  /\ o \in Ops
  /\ o.kind = "delete"
  /\ o.phase = "sent"
  /\ pending' = Replace(o, [o EXCEPT !.phase = IF ok THEN "ok" ELSE "err"])
  /\ UNCHANGED <<cardVars, gesture, stateVars, favorites, channel, subscriptions>>
  /\ lastEvent' = Quiet

\* ---------------------------------------------------------------- favoritesUpdated
\* HandlerValue of a handler that asks whether the payload has any entry
HandlerValue_AnyEntry(c, newFavorites) == newFavorites # {}

\* the handler a card registered: (newFavorites) => setFavorited(!!newFavorites[storageKey])
Subscribed(c) == \E s \in subscriptions : s.card = c
HandlerValue(c, newFavorites) ==
  (CHOOSE s \in subscriptions : s.card = c).storageKey \in newFavorites

\* the oldest published event reaches every handler subscribed at that time
Deliver ==
  /\ channel # <<>>
  /\ channel' = Tail(channel)
  /\ favorited' = [c \in Cards |->
                     IF Subscribed(c) THEN HandlerValue(c, Head(channel).favorites)
                     ELSE favorited[c]]
  /\ settled' = [c \in Cards |-> Subscribed(c) \/ settled[c]]
  /\ UNCHANGED <<cardVars, gesture, searchFavorited, showMobileActions, pending, favorites, subscriptions>>
  /\ lastEvent' = [Quiet EXCEPT !.type = "deliver", !.pl = Head(channel)]

\* ---------------------------------------------------------------- specification
\* what the user can do on a mounted card
UI(c) ==
  \/ HeartClick(c)
  \/ MenuFavoriteClick(c)
  \/ TrashClick(c)
  \/ MenuDeleteClick(c)
  \/ LongPress(c)
  \/ ContextMenu(c)
  \/ CloseMenu(c)
  \/ Click(c)
  \/ MenuPlayClick(c)

\* what the event loop runs on its own: the service, the continuations, the channel
Async ==
  \/ \E o \in Ops : fetchFavoriteStatusResume(o)
  \/ \E o \in Ops : checkSearchFavoriteStatusResume(o)
  \/ \E o \in Ops : handleToggleFavoriteResume(o)
  \/ \E o \in Ops : handleDeleteRecordResume(o)
  \/ \E o \in Ops, ok \in BOOLEAN : ServiceExists(o, ok)
  \/ \E o \in Ops, ok \in BOOLEAN : ServiceMutate(o, ok)
  \/ \E o \in Ops, ok \in BOOLEAN : ServiceRemovePlayRecord(o, ok)
  \/ Deliver

\* One card through its whole life: mounted, re-rendered with another identity,
\* unmounted and mounted again, with every prop combination; its presses are
\* taken as resolved (Click, LongPress).
Next ==
  \/ \E p \in CardProps : Mount("c1", p)
  \/ Unmount("c1")
  \/ \E ident \in Identities : SetIdentity("c1", ident)
  \/ UI("c1")
  \/ Async

Spec == Init /\ [][Next]_vars

\* Two cards on one page: c1 with any props, c2 a favorite or search card of
\* the same subject; both stay mounted.
NextPair ==
  \/ \E c \in Cards : \E p \in PropsOf(c) : Mount(c, p)
  \/ \E c \in Cards : UI(c)
  \/ Async

SpecPair == Init /\ [][NextPair]_vars

\* Two cards on one page as in SpecPair, with a persistence service that never
\* fails: what is left is the order in which calls, continuations and
\* broadcasts interleave.
NextReliable ==
  \/ \E c \in Cards : \E p \in PropsOf(c) : Mount(c, p)
  \/ \E c \in Cards : HeartClick(c)
  \/ \E c \in Cards : MenuFavoriteClick(c)
  \/ \E c \in Cards : ContextMenu(c)
  \/ \E c \in Cards : CloseMenu(c)
  \/ \E o \in Ops : fetchFavoriteStatusResume(o)
  \/ \E o \in Ops : checkSearchFavoriteStatusResume(o)
  \/ \E o \in Ops : handleToggleFavoriteResume(o)
  \/ \E o \in Ops : ServiceExists(o, TRUE)
  \/ \E o \in Ops : ServiceMutate(o, TRUE)
  \/ Deliver

\* Init with the history of the toggles switched on or off and a store
\* over the given keys
Start(record, keys) ==
  /\ mounted = [c \in Cards |-> FALSE]
  /\ from = [c \in Cards |-> "search"]
  /\ actualSource = [c \in Cards |-> ""]
  /\ actualId = [c \in Cards |-> ""]
  /\ isAggregate = [c \in Cards |-> FALSE]
  /\ rate = [c \in Cards |-> ""]
  /\ dynamicDoubanId = [c \in Cards |-> <<>>]
  /\ episodes = [c \in Cards |-> <<>>]
  /\ source_names = [c \in Cards |-> <<>>]
  /\ douban_id = [c \in Cards |-> <<>>]
  /\ dynamicEpisodes = [c \in Cards |-> <<>>]
  /\ dynamicSourceNames = [c \in Cards |-> <<>>]
  /\ bridged = [c \in Cards |-> {}]
  /\ recordToggles = record
  /\ gesture = [c \in Cards |-> Idle]
  /\ favorited = [c \in Cards |-> FALSE]
  /\ searchFavorited = [c \in Cards |-> NULL]
  /\ showMobileActions = [c \in Cards |-> FALSE]
  /\ settled = [c \in Cards |-> FALSE]
  /\ pending = EmptyBag
  /\ favorites \in SUBSET keys
  /\ channel = <<>>
  /\ subscriptions = {}
  /\ lastEvent = Quiet

InitReliable == Start(TRUE, Keys)

SpecReliable == InitReliable /\ [][NextReliable]_vars

\* Two playrecord or favorite cards of two different subjects on one page:
\* c1 has the key A:1, c2 the key B:1; the store ranges over both keys.
SubjectOf(c) == IF c = "c1" THEN <<"A", "1">> ELSE <<"B", "1">>
SubjectKeys == { generateStorageKey(SubjectOf(c)[1], SubjectOf(c)[2]) : c \in Cards }
SubjectProps(c) ==
  { [from |-> f, ident |-> SubjectOf(c), isAggregate |-> FALSE, rate |-> "",
     douban_id |-> <<>>, episodes |-> <<>>, source_names |-> <<>>] :
      f \in IF c = "c1" THEN {"playrecord", "favorite"} ELSE {"favorite"} }

InitSubjects == Start(FALSE, SubjectKeys)

NextSubjects ==
  \/ \E c \in Cards : \E p \in SubjectProps(c) : Mount(c, p)
  \/ \E c \in Cards : HeartClick(c)
  \/ \E o \in Ops : fetchFavoriteStatusResume(o)
  \/ \E o \in Ops : handleToggleFavoriteResume(o)
  \/ \E o \in Ops, ok \in BOOLEAN : ServiceExists(o, ok)
  \/ \E o \in Ops, ok \in BOOLEAN : ServiceMutate(o, ok)
  \/ Deliver

SpecSubjects == InitSubjects /\ [][NextSubjects]_vars

\* One card whose presses are resolved step by step: pointer down, the clock
\* of the press, release or movement, next to the secondary click and the menu.
NextGesture ==
  \/ \E p \in CardProps : Mount("c1", p)
  \/ PointerDown("c1")
  \/ Hold("c1")
  \/ PointerUp("c1")
  \/ PointerMove("c1")
  \/ ContextMenu("c1")
  \/ CloseMenu("c1")
  \/ MenuPlayClick("c1")
  \/ \E o \in Ops, ok \in BOOLEAN : ServiceExists(o, ok)
  \/ \E o \in Ops : fetchFavoriteStatusResume(o)
  \/ \E o \in Ops : checkSearchFavoriteStatusResume(o)

SpecGesture == Init /\ [][NextGesture]_vars

\* One search or douban card whose parent passes other props and drives the
\* handle of useImperativeHandle.
NextBridge ==
  \/ \E p \in BridgeProps : Mount("c1", p)
  \/ Unmount("c1")
  \/ \E ident \in Identities : SetIdentity("c1", ident)
  \/ \E eps \in Episodes, names \in SourceNameArrays, id \in DoubanIds :
       SetProps("c1", eps, names, id)
  \/ \E eps \in Episodes : setEpisodes("c1", eps)
  \/ \E names \in SourceNameArrays : setSourceNames("c1", names)
  \/ \E id \in DoubanIds : setDoubanId("c1", id)

SpecBridge == Init /\ [][NextBridge]_vars

\* ================================================================ properties
Eager(c) == from[c] \in {"playrecord", "favorite"}
StorageKey(c) == generateStorageKey(actualSource[c], actualId[c])
\* favorite calls (lookups and toggles) of the mounted instance of c still in flight
FavoriteCalls(c) ==
  { o \in Ops : o.card = c /\ o.alive /\ o.kind \in {"fetch", "check", "toggle"} }

\* C1: when the mount-time lookup of a mounted playrecord or favorite card
\* with a non-empty identity resolves, the status of the card is Known(x),
\* x being the answer of isFavorited to that lookup.
C1_EagerLookupAdopted ==
  (lastEvent.type = "fetchOk" /\ lastEvent.live /\ Eager(lastEvent.card)) =>
    /\ mounted[lastEvent.card]
    /\ HasIdentity(lastEvent.card)
    /\ Status(lastEvent.card) = Known(lastEvent.val)

C1_Witness ==
  /\ lastEvent.type = "fetchOk"
  /\ lastEvent.live
  /\ lastEvent.val
  /\ Eager(lastEvent.card)
  /\ StorageKey(lastEvent.card) \in favorites
  /\ Status(lastEvent.card) = "KnownTrue"

\* C2 (as claimed): while the remove issued by toggling a card that was
\* Known(true) is still in flight, the status of that card is already
\* Known(false).
C2_ToggleFlipsBeforeResolution ==
  \A o \in Ops :
    (o.kind = "toggle" /\ Live(o) /\ o.known /\ o.cur) => Status(o.card) = "KnownFalse"

\* C3 (as claimed): when a favoritesUpdated event is delivered, every mounted
\* playrecord, favorite or search card whose storage key is the key of the
\* event has the status Known(v), v being the membership of that key in the
\* payload.
C3_BroadcastAdoptedByAll ==
  lastEvent.type = "deliver" =>
    \A c \in Cards :
      (mounted[c] /\ from[c] # "douban" /\ HasIdentity(c) /\ StorageKey(c) = lastEvent.pl.key)
        => Status(c) = Known(lastEvent.pl.key \in lastEvent.pl.favorites)

\* C4 (as claimed): a card never has two favorite calls (lookup or toggle) in
\* flight at once.
C4_OneFavoriteCallInFlight ==
  \A c \in Cards :
    /\ Cardinality(FavoriteCalls(c)) <= 1
    /\ \A o \in FavoriteCalls(c) : CopiesIn(o, pending) <= 1

\* C5 (as claimed): the continuation of a lookup whose card was unmounted, or
\* re-rendered with another source or id, since the lookup was issued changes
\* the favorite state of no card and does not throw.
C5_StaleLookupDiscarded ==
  [][\A o \in Ops :
       (o.kind \in {"fetch", "check"} /\ o.phase # "sent" /\ ~Live(o) /\ pending' = Retire(o))
         => (favorited' = favorited /\ searchFavorited' = searchFavorited /\ ~lastEvent'.threw)]_vars

\* the steps the status of a mounted card may take
StatusStep(a, b) ==
  \/ a = b
  \/ a = "Unknown" /\ b = "Checking"
  \/ a = "Checking" /\ IsKnown(b)
  \/ IsKnown(a) /\ IsKnown(b)

\* C6: while a card stays mounted its status only steps from Unknown to
\* Checking, from Checking to Known, and between Known values; once Known it
\* never is Unknown or Checking again.
C6_StatusOnlyAdvances ==
  [][\A c \in Cards : (mounted[c] /\ mounted'[c]) => StatusStep(Status(c), Status(c)')]_vars

\* a search card that went Unknown, Checking, Known(true) and was then toggled
C6_Witness ==
  /\ lastEvent.type = "toggleOk"
  /\ lastEvent.live
  /\ lastEvent.known
  /\ lastEvent.val
  /\ from[lastEvent.card] = "search"
  /\ Status(lastEvent.card) = "KnownFalse"

\* C7 (as claimed): every add or remove in flight was issued by a card whose
\* status was Known, for a non-empty source and id.
C7_ToggleOnlyWhenKnown ==
  \A o \in Ops :
    o.kind = "toggle" => (o.known /\ Truthy(o.source) /\ Truthy(o.id))

\* C8 (as claimed): when the add or remove of a toggle invoked on a card of
\* status Known(b) fails, the status of the card is Known(b).
C8_FailedToggleLeavesStatus ==
  (lastEvent.type = "toggleErr" /\ lastEvent.live /\ lastEvent.known)
    => Status(lastEvent.card) = Known(lastEvent.val)

\* C9 (as claimed): when a lookup of a mounted card fails, mount-time or
\* menu-open alike, the status of the card is Known(false).
C9_FailedLookupFallsBack ==
  (lastEvent.type \in {"fetchErr", "checkErr"} /\ lastEvent.live)
    => Status(lastEvent.card) = "KnownFalse"

\* C10 (as claimed): no continuation of a db.client call ends in an uncaught
\* error.
C10_NoUncaughtFailure == ~lastEvent.threw

\* a long press or a secondary click on card c
MenuOpenGesture(c) == LongPress(c) \/ ContextMenu(c)

\* C11: mounting a search card issues no lookup and leaves its status
\* Unknown, and no step other than a long press or a secondary click on the
\* card moves the status of a mounted search card away from Unknown.
C11_SearchLazyUntilMenu ==
  [][\A c \in Cards :
       /\ (~mounted[c] /\ mounted'[c] /\ from'[c] = "search")
            => (Status(c)' = "Unknown" /\ pending' = pending)
       /\ (mounted[c] /\ mounted'[c] /\ from[c] = "search" /\ Status(c) = "Unknown"
             /\ ~MenuOpenGesture(c))
            => Status(c)' = "Unknown"]_vars

\* a search card still Unknown when the broadcast for its own key arrives
C11_Witness ==
  /\ mounted["c1"]
  /\ from["c1"] = "search"
  /\ HasIdentity("c1")
  /\ ~isAggregate["c1"]
  /\ ~showMobileActions["c1"]
  /\ lastEvent.type = "deliver"
  /\ lastEvent.pl.key = StorageKey("c1")
  /\ Status("c1") = "Unknown"

\* the menu-open lookups of the mounted instance of c still in flight
LazyLookups(c) == { o \in Ops : o.card = c /\ o.alive /\ o.kind = "check" }

\* C12 (as claimed): however often the menu of a search card is requested
\* while its status is Unknown or Checking, one lookup at most is issued.
C12_OneLazyLookup ==
  \A c \in Cards :
    /\ Cardinality(LazyLookups(c)) <= 1
    /\ \A o \in LazyLookups(c) : CopiesIn(o, pending) = 1

\* C13 (as claimed): a long press or a secondary click on a search card with
\* a non-empty source and id whose status is Unknown starts the lookup: the
\* status is Checking after the gesture.
C13_MenuOpenStartsCheck ==
  [][\A c \in Cards :
       (mounted[c] /\ from[c] = "search" /\ HasIdentity(c) /\ Status(c) = "Unknown"
          /\ MenuOpenGesture(c))
         => Status(c)' = "Checking"]_vars

\* C14: every live favoritesUpdated handler belongs to a mounted card and is
\* registered under the key of the identity that card has now, no card has
\* two, and the favorite state of an unmounted card is never written.
C14_SubscriptionScoped ==
  /\ \A s \in subscriptions : mounted[s.card] /\ s.storageKey = StorageKey(s.card)
  /\ \A c \in Cards : Cardinality({ s \in subscriptions : s.card = c }) <= 1
  /\ \A c \in Cards : ~mounted[c] => (~favorited[c] /\ ~settled[c])

\* a broadcast delivered after the card that subscribed was unmounted
C14_Witness ==
  /\ ~mounted["c1"]
  /\ subscriptions = {}
  /\ lastEvent.type = "deliver"

\* C15: a mounted douban card renders no Heart icon and has no favorite
\* entry, toggle or placeholder, in its menu.
C15_DoubanNoFavorite ==
  \A c \in Cards :
    (mounted[c] /\ from[c] = "douban") =>
      /\ ~HeartShown(c)
      /\ \A k \in DOMAIN mobileActions(c) :
           mobileActions(c)[k].id \notin {"favorite", "favorite-loading"}

\* a douban card with source, id, rating and douban id whose menu is open
C15_Witness ==
  /\ mounted["c1"]
  /\ from["c1"] = "douban"
  /\ HasIdentity("c1")
  /\ Truthy(rate["c1"])
  /\ TruthyNum(dynamicDoubanId["c1"])
  /\ showMobileActions["c1"]
  /\ Len(mobileActions("c1")) = 3

C17_SecondaryClickOpensMenu ==
  [][\A c \in Cards :
       (lastEvent'.type = "contextMenu" /\ lastEvent'.card = c)
         => /\ mounted[c]
            /\ showMobileActions'[c]
            /\ lastEvent'.prevented
            /\ gesture' = gesture]_vars

\* a secondary click in the middle of a press, on a card whose menu was open
C17_Witness ==
  /\ lastEvent.type = "contextMenu"
  /\ lastEvent.prevented
  /\ gesture["c1"].state = "Pressing"
  /\ gesture["c1"].held > 0
  /\ showMobileActions["c1"]

\* C18 (as claimed): a long press or a secondary click on a card whose menu
\* is open changes no menu state and issues no call.
C18_NoReentry ==
  [][\A c \in Cards :
       (mounted[c] /\ showMobileActions[c] /\ MenuOpenGesture(c))
         => (showMobileActions' = showMobileActions /\ pending' = pending)]_vars

\* the table of the specification: variant, hasRating -> DisplayConfig;
\* every tag that is no variant gets the SearchResult row
DisplayConfig(variant, hasRating) ==
  IF variant = "playrecord" THEN
    [source |-> TRUE, progress |-> TRUE, play |-> TRUE, heart |-> TRUE,
     delete |-> TRUE, extLink |-> FALSE, rating |-> FALSE, year |-> FALSE]
  ELSE IF variant = "favorite" THEN
    [source |-> TRUE, progress |-> FALSE, play |-> TRUE, heart |-> TRUE,
     delete |-> FALSE, extLink |-> FALSE, rating |-> FALSE, year |-> FALSE]
  ELSE IF variant = "douban" THEN
    [source |-> FALSE, progress |-> FALSE, play |-> TRUE, heart |-> FALSE,
     delete |-> FALSE, extLink |-> TRUE, rating |-> hasRating, year |-> FALSE]
  ELSE
    [source |-> TRUE, progress |-> FALSE, play |-> TRUE, heart |-> TRUE,
     delete |-> FALSE, extLink |-> TRUE, rating |-> FALSE, year |-> TRUE]

\* the config of a card under the names of the specification
Resolved(c) ==
  [source |-> config(c).showSourceName, progress |-> config(c).showProgress,
   play |-> config(c).showPlayButton, heart |-> config(c).showHeart,
   delete |-> config(c).showCheckCircle, extLink |-> config(c).showDoubanLink,
   rating |-> config(c).showRating, year |-> config(c).showYear]

\* C19 (as claimed): the config of a card is the row of the table for its
\* variant and hasRating, and the SearchResult row for any other tag.
C19_ConfigIsTableRow ==
  \A c \in Cards :
    mounted[c] => Resolved(c) = DisplayConfig(from[c], Truthy(rate[c]))

\* the place of an entry in the fixed order of the menu
Rank(id) ==
  IF id = "play" THEN 1
  ELSE IF id = "play-new-tab" THEN 2
  ELSE IF id \in {"favorite", "favorite-loading"} THEN 3
  ELSE IF id = "delete" THEN 4
  ELSE 5

\* C20: the entries of the menu of a mounted card are in the order play,
\* play-new-tab, favorite, delete, douban, none twice; a playrecord card
\* with source and id whose status is Known(true) has exactly play,
\* play-new-tab, the enabled favorite entry labelled remove, and delete.
C20_MenuOrder ==
  \A c \in Cards :
    mounted[c] =>
      /\ \A i, j \in DOMAIN mobileActions(c) :
           i < j => Rank(mobileActions(c)[i].id) < Rank(mobileActions(c)[j].id)
      /\ (from[c] = "playrecord" /\ HasIdentity(c) /\ Status(c) = "KnownTrue")
           => /\ [k \in DOMAIN mobileActions(c) |-> mobileActions(c)[k].id]
                   = <<"play", "play-new-tab", "favorite", "delete">>
              /\ mobileActions(c)[3].label = "remove"
              /\ ~mobileActions(c)[3].disabled

\* the playrecord card (A, 1) of the scenario, found favorited, menu open
C20_Witness ==
  /\ mounted["c1"]
  /\ from["c1"] = "playrecord"
  /\ HasIdentity("c1")
  /\ StorageKey("c1") \in favorites
  /\ Status("c1") = "KnownTrue"
  /\ showMobileActions["c1"]
  /\ Len(mobileActions("c1")) = 4

\* C21 (as claimed): the favorite entry of the menu of a mounted card is the
\* disabled placeholder exactly when the status is Unknown or Checking, and
\* the enabled toggle, labelled remove for Known(true) and add for
\* Known(false), exactly when the status is Known.
C21_FavoriteEntryShowsStatus ==
  \A c \in Cards :
    (mounted[c] /\ FavoriteAction(c) # <<>>) =>
      LET a == FavoriteAction(c)[1]
      IN /\ (Status(c) \in {"Unknown", "Checking"}) <=> (a.id = "favorite-loading" /\ a.disabled)
         /\ IsKnown(Status(c)) <=> (a.id = "favorite" /\ ~a.disabled)
         /\ Status(c) = "KnownTrue" => a.label = "remove"
         /\ Status(c) = "KnownFalse" => a.label = "add"

\* C22 (as claimed): whenever the menu of a mounted card has the play
\* entries, handleClick pushes a url for that card.
C22_PlayEntryNavigates ==
  \A c \in Cards :
    (mounted[c] /\ PlayActions(c) # <<>>) => Navigates(c)

\* C23: the menu has the delete entry only for a playrecord card with source
\* and id; deletePlayRecord is only called for such a card; and onDelete is
\* called only by the step that resumes a deletePlayRecord call that has
\* succeeded.
C23_DeleteThenNotify ==
  [][/\ \A c \in Cards :
          (mounted[c] /\ DeleteAction(c) # <<>>) => (from[c] = "playrecord" /\ HasIdentity(c))
     /\ \A o \in Ops :
          o.kind = "delete" =>
            /\ Truthy(o.source) /\ Truthy(o.id)
            /\ Live(o) => from[o.card] = "playrecord"
     /\ lastEvent'.type = "onDelete" =>
          \E o \in Ops : /\ o.kind = "delete"
                         /\ o.phase = "ok"
                         /\ o.card = lastEvent'.card
                         /\ pending' = Retire(o)]_vars

\* onDelete after the deletePlayRecord of a mounted playrecord card succeeded
C23_Witness ==
  /\ lastEvent.type = "onDelete"
  /\ lastEvent.live
  /\ ~lastEvent.threw
  /\ from[lastEvent.card] = "playrecord"
  /\ DeleteAction(lastEvent.card) # <<>>

\* C24: the menu of a mounted card has the douban entry exactly when
\* config.showDoubanLink is set and the current id, which is the douban_id
\* prop unless the handle has set it since, is present and not 0.
C24_DoubanEntry ==
  \A c \in Cards :
    mounted[c] =>
      /\ "douban_id" \notin bridged[c] => dynamicDoubanId[c] = douban_id[c]
      /\ (\E k \in DOMAIN mobileActions(c) : mobileActions(c)[k].id = "douban")
           <=> (config(c).showDoubanLink /\ dynamicDoubanId[c] \notin {<<>>, <<0>>})

\* the handle set the id to 0 on a douban card whose prop is 7: no douban entry
C24_Witness ==
  /\ mounted["c1"]
  /\ config("c1").showDoubanLink
  /\ "douban_id" \in bridged["c1"]
  /\ douban_id["c1"] = <<7>>
  /\ dynamicDoubanId["c1"] = <<0>>
  /\ \A k \in DOMAIN mobileActions("c1") : mobileActions("c1")[k].id # "douban"

\* C25 (as claimed): a field of a mounted card whose value was set through
\* the handle changes only in a step that calls the same setter again.
C25_BridgeValueKept ==
  [][\A c \in Cards :
       (mounted[c] /\ mounted'[c]) =>
         /\ ("episodes" \in bridged[c] /\ dynamicEpisodes'[c] # dynamicEpisodes[c])
              => \E v \in Episodes : setEpisodes(c, v)
         /\ ("source_names" \in bridged[c] /\ dynamicSourceNames'[c] # dynamicSourceNames[c])
              => \E v \in SourceNameArrays : setSourceNames(c, v)
         /\ ("douban_id" \in bridged[c] /\ dynamicDoubanId'[c] # dynamicDoubanId[c])
              => \E v \in DoubanIds : setDoubanId(c, v)]_vars

\* C25 (amended): a field of a mounted card whose value was set through the
\* handle changes only in a step that calls the same setter again, or in a
\* re-render that passes another value for the field's own prop, which the
\* field then takes; a mount seeds the three fields from the props.
C25_BridgeValueKeptUntilPropChanges ==
  [][\A c \in Cards :
       /\ (~mounted[c] /\ mounted'[c]) =>
            /\ dynamicEpisodes'[c] = episodes'[c]
            /\ dynamicSourceNames'[c] = source_names'[c]
            /\ dynamicDoubanId'[c] = douban_id'[c]
       /\ (mounted[c] /\ mounted'[c]) =>
            /\ ("episodes" \in bridged[c] /\ dynamicEpisodes'[c] # dynamicEpisodes[c])
                 => \/ \E v \in Episodes : setEpisodes(c, v)
                    \/ episodes'[c] # episodes[c] /\ dynamicEpisodes'[c] = episodes'[c]
            /\ ("source_names" \in bridged[c] /\ dynamicSourceNames'[c] # dynamicSourceNames[c])
                 => \/ \E v \in SourceNameArrays : setSourceNames(c, v)
                    \/ source_names'[c] # source_names[c] /\ dynamicSourceNames'[c] = source_names'[c]
            /\ ("douban_id" \in bridged[c] /\ dynamicDoubanId'[c] # dynamicDoubanId[c])
                 => \/ \E v \in DoubanIds : setDoubanId(c, v)
                    \/ douban_id'[c] # douban_id[c] /\ dynamicDoubanId'[c] = douban_id'[c]]_vars

\* a re-render with another episodes or source_names prop has just left the
\* id that the handle set, which differs from the douban_id prop
C25_Witness ==
  /\ lastEvent.type = "setProps"
  /\ mounted[lastEvent.card]
  /\ "douban_id" \in bridged[lastEvent.card]
  /\ dynamicDoubanId[lastEvent.card] # douban_id[lastEvent.card]

\* C26 (as claimed): when no call is in flight and no broadcast is waiting,
\* every mounted playrecord or favorite card with source and id shows the
\* status Known(b), b being whether the store holds the card's key.
C26_QuiescentAgreement ==
  (pending = EmptyBag /\ channel = <<>>) =>
    \A c \in Cards :
      (mounted[c] /\ Eager(c) /\ HasIdentity(c)) =>
        Status(c) = Known(StorageKey(c) \in favorites)

\* C27 (as claimed): when a card that is alone on the page completes a
\* successful toggle that it invoked right after a first successful toggle
\* completed, the first invoked on a Known status and neither of the two in
\* flight together with another toggle, the second toggle has issued the opposite
\* mutation of the first, the card's status is the one it had before the
\* first toggle, and the store holds the card's key exactly if it did before
\* the first toggle.
C27_TwoTogglesRestore ==
  LET c == lastEvent.card
  IN (/\ lastEvent.type = "toggleOk"
      /\ lastEvent.live
      /\ lastEvent.alone
      /\ lastEvent.first # <<>>
      /\ lastEvent.first[1].known
      /\ \A d \in Cards \ {c} : ~mounted[d])
     => /\ lastEvent.val = ~lastEvent.first[1].cur
        /\ Status(c) = Known(lastEvent.first[1].cur)
        /\ Member(c) = lastEvent.first[1].member

\* C28 (as claimed): the delivery of a favoritesUpdated broadcast leaves every
\* subscribed card with the status Known(b), b being whether the payload has
\* an entry under the card's own key; and the broadcast of a toggle on
\* another key does not change the Known status of a subscribed card.
C28_BroadcastOwnKeyOnly ==
  [][lastEvent'.type = "deliver" =>
       \A c \in Cards :
         Subscribed(c) =>
           /\ Status(c)' = Known(StorageKey(c) \in lastEvent'.pl.favorites)
           /\ (IsKnown(Status(c)) /\ StorageKey(c) # lastEvent'.pl.key)
                => Status(c)' = Status(c)]_vars

\* C28 (amended): the delivery of a favoritesUpdated broadcast leaves every
\* subscribed card with the status Known(b), b being whether the payload has
\* an entry under the card's own key, whichever key was toggled; so the
\* broadcast of a toggle on another key does not change the status of a
\* subscribed card whose status already was that membership.
C28_BroadcastSetsOwnMembership ==
  [][lastEvent'.type = "deliver" =>
       \A c \in Cards :
         Subscribed(c) =>
           /\ Status(c)' = Known(StorageKey(c) \in lastEvent'.pl.favorites)
           /\ (Status(c) = Known(StorageKey(c) \in lastEvent'.pl.favorites)
                 /\ StorageKey(c) # lastEvent'.pl.key)
                => Status(c)' = Status(c)]_vars

\* the broadcast of a toggle on B:1 that removed it has just been delivered
\* to card c1, whose key A:1 the payload still holds
C28_Witness ==
  /\ lastEvent.type = "deliver"
  /\ lastEvent.pl.key = "B:1"
  /\ lastEvent.pl.favorites = {"A:1"}
  /\ Subscribed("c1")
  /\ StorageKey("c1") = "A:1"
  /\ Status("c1") = "KnownTrue"
  /\ mounted["c2"]

====
